---- MODULE Spec2Model ----
(***************************************************************************)
(* Storage adapters (JSON file, in-memory, LMDB), the adapter-name         *)
(* selector and the write path of the offline CMS.                         *)
(***************************************************************************)
EXTENDS Integers, Sequences, FiniteSets, TLC

VARIABLES
    kind,       \* which adapter was constructed: "json" | "memory" | "lmdb"
    file,       \* JsonAdapter: the file at filePath, Null when it does not exist
    memData,    \* MemoryAdapter.data, Null or the stored object
    db,         \* LmdbAdapter: committed content of the named databases
    pending,    \* LmdbAdapter: batches of put() calls not yet committed
    storeFault, \* the backing store (file system, LMDB environment) is failing
    saves,      \* number of saveAll calls that resolved
    lastArg,    \* the caller's argument object of the last saveAll, after the call
    argOrig,    \* the value that argument had when saveAll was called
    prevArg,    \* the argument value of the saveAll call before that
    hold,       \* how many getAll values the caller keeps hold of
    results,    \* the getAll values the caller holds; it lets go of them when it saves
    out,        \* [op, status, val, idx]: how the last operation settled
    nameIn,     \* the configured backend identifier handed to normalizeAdapterName
    nameOut,    \* what normalizeAdapterName returned for it, "" before the call
    mode,       \* the GraphQLMode the process was started with
    online,     \* the remote content source is reachable
    queue,      \* the Mutation Queue, oldest entry first
    applied,    \* the operations the remote has executed, in order
    writes,     \* number of submitWrite calls made
    outcome,    \* the tagged outcome of the last coordinator operation
    inflight,   \* submitWrite calls whose remote attempt has been answered but not settled
    enqueued,   \* number of enqueue calls made on the Mutation Queue
    attempts,   \* ids of the entries the executor was invoked on by the last flushQueue
    net,        \* how a fetch() from the admin UI to the API server ends
    apiStatus,  \* AdminLayout: the health status it last stored, Null before any
    fetches,    \* number of fetch() calls the admin UI has made
    cout,       \* [fn, status, val]: how the last call into lib/graphql settled
    ctx         \* the offline test context: state.offline, globalThis.fetch, last call

adapterVars == <<kind, file, memData, db, pending, storeFault, saves,
                 lastArg, argOrig, prevArg, hold, results, out>>
nameVars == <<nameIn, nameOut>>
clientVars == <<net, apiStatus, fetches, cout, ctx>>
coordVars == <<mode, online, queue, applied, writes, outcome, inflight, enqueued, attempts,
               clientVars>>

vars == <<adapterVars, nameVars, coordVars>>

(***************************************************************************)
(* Bounds                                                                  *)
(***************************************************************************)
MaxSaves == 2
MaxResults == 2
MaxNameLen == 3
MaxQueue == 2
MaxWrites == 2
MaxInflight == 2
MaxFetches == 3

(***************************************************************************)
(* Values                                                                  *)
(***************************************************************************)
\* null / undefined / "no such file": an option is <<>> or <<v>>
Null == <<>>
Undefined == <<>>
Some(v) == <<v>>

Collections == <<"posts", "categories", "tags", "authors", "pages">>
CollectionNames == {Collections[i] : i \in 1..Len(Collections)}

Titles == {"First", "Second"}
Ids == {0, 1, 2}
OptIds == {Undefined} \cup {Some(n) : n \in Ids}
Recs == [id : OptIds, title : Titles]

SiteVals == {[title |-> "Test Site"], [title |-> "Other Site"]}
MenuVals == {<<"Home", "About">>}

emptyCollections ==
    [posts |-> <<>>, categories |-> <<>>, tags |-> <<>>, authors |-> <<>>,
     pages |-> <<>>, site |-> Undefined, menu |-> Undefined]

sampleCollections ==
    [posts |-> <<[id |-> Some(1), title |-> "First"], [id |-> Some(2), title |-> "Second"]>>,
     categories |-> <<[id |-> Some(1), title |-> "First"], [id |-> Some(2), title |-> "Second"]>>,
     tags |-> <<[id |-> Some(1), title |-> "First"], [id |-> Some(2), title |-> "Second"]>>,
     authors |-> <<[id |-> Some(1), title |-> "First"]>>,
     pages |-> <<[id |-> Some(1), title |-> "First"]>>,
     site |-> Some([title |-> "Test Site"]),
     menu |-> Some(<<"Home", "About">>)]

\* Snapshots the callers hand to saveAll: the fixture, one record in one
\* collection, two records in posts (any ids, so also equal, missing and
\* descending ones), and the singletons alone.
Rec(i, t) == [id |-> i, title |-> t]

OneRecSnapshots ==
    {[emptyCollections EXCEPT ![c] = <<Rec(Some(1), "First")>>] : c \in CollectionNames}
    \cup {[emptyCollections EXCEPT !.posts = <<r>>] : r \in Recs}
TwoRecSnapshots ==
    {[emptyCollections EXCEPT !.posts = <<Rec(i, "First"), Rec(j, "Second")>>] :
        i \in OptIds, j \in OptIds}
MetaSnapshots ==
    {[emptyCollections EXCEPT !.site = s, !.menu = m] :
        s \in {Undefined} \cup {Some(v) : v \in SiteVals},
        m \in {Undefined} \cup {Some(v) : v \in MenuVals}}
Snapshots ==
    OneRecSnapshots \cup TwoRecSnapshots \cup MetaSnapshots \cup {sampleCollections}

\* the few snapshots used where the content of a snapshot does not matter
FewSnapshots ==
    {emptyCollections, sampleCollections,
     [emptyCollections EXCEPT !.posts = <<Rec(Some(2), "Second")>>]}

(***************************************************************************)
(* JSON.stringify / JSON.parse on snapshots, as token sequences            *)
(***************************************************************************)
RECURSIVE Flatten(_)
Flatten(ss) == IF ss = <<>> THEN <<>> ELSE Head(ss) \o Flatten(Tail(ss))

\* a property whose value is undefined is left out of the document
StringifyRec(r) ==
    <<"{">> \o (IF r.id = Undefined THEN <<>> ELSE <<"id", ToString(r.id[1])>>)
            \o <<"title", r.title, "}">>

StringifyArr(rs) ==
    <<"[">> \o Flatten([i \in 1..Len(rs) |-> StringifyRec(rs[i])]) \o <<"]">>

JSONstringify(s) ==
    <<"{">>
    \o Flatten([i \in 1..Len(Collections) |->
                  <<Collections[i]>> \o StringifyArr(s[Collections[i]])])
    \o (IF s.site = Undefined THEN <<>>
        ELSE <<"site", "{", "title", s.site[1].title, "}">>)
    \o (IF s.menu = Undefined THEN <<>>
        ELSE <<"menu", "[">> \o s.menu[1] \o <<"]">>)
    \o <<"}">>

\* the number a numeric token denotes
ParseNum(tok) == CHOOSE n \in Ids \cup {999} : ToString(n) = tok

\* parse the records of an array from token i on; yields the value and the
\* index after the closing bracket
RECURSIVE ParseRecs(_, _, _)
ParseRecs(t, i, acc) ==
    IF t[i] = "]" THEN [val |-> acc, next |-> i + 1]
    ELSE IF t[i + 1] = "id"
         THEN ParseRecs(t, i + 6,
                  Append(acc, [id |-> Some(ParseNum(t[i + 2])), title |-> t[i + 4]]))
         ELSE ParseRecs(t, i + 4,
                  Append(acc, [id |-> Undefined, title |-> t[i + 2]]))

RECURSIVE ParseStrs(_, _, _)
ParseStrs(t, i, acc) ==
    IF t[i] = "]" THEN [val |-> acc, next |-> i + 1]
    ELSE ParseStrs(t, i + 1, Append(acc, t[i]))

RECURSIVE ParseMembers(_, _, _)
ParseMembers(t, i, acc) ==
    IF t[i] = "}" THEN acc
    ELSE IF t[i] = "site"
         THEN ParseMembers(t, i + 5, [acc EXCEPT !.site = Some([title |-> t[i + 3]])])
    ELSE IF t[i] = "menu"
         THEN LET m == ParseStrs(t, i + 2, <<>>)
              IN  ParseMembers(t, m.next, [acc EXCEPT !.menu = Some(m.val)])
    ELSE LET a == ParseRecs(t, i + 2, <<>>)
         IN  ParseMembers(t, a.next, [acc EXCEPT ![t[i]] = a.val])

JSONparse(t) == ParseMembers(t, 2, emptyCollections)

\* structuredClone of plain data: new arrays and objects, member by member
CloneRecs(rs) == [i \in 1..Len(rs) |-> [id |-> rs[i].id, title |-> rs[i].title]]

structuredClone(v) ==
    [posts |-> CloneRecs(v.posts), categories |-> CloneRecs(v.categories),
     tags |-> CloneRecs(v.tags), authors |-> CloneRecs(v.authors),
     pages |-> CloneRecs(v.pages),
     site |-> IF v.site = Undefined THEN Undefined ELSE Some([title |-> v.site[1].title]),
     menu |-> IF v.menu = Undefined THEN Undefined
              ELSE Some([i \in 1..Len(v.menu[1]) |-> v.menu[1][i]])]

(***************************************************************************)
(* LMDB: named databases keyed by number, and the meta database            *)
(***************************************************************************)
EmptyNs == [k \in {} |-> Undefined]

EmptyDb ==
    [posts |-> EmptyNs, categories |-> EmptyNs, tags |-> EmptyNs,
     authors |-> EmptyNs, pages |-> EmptyNs,
     meta |-> [site |-> Undefined, menu |-> Undefined]]

toArray(value) == value

\* Number(value), 0 when that is not finite; Number(undefined) is NaN
asId(value) == IF value = Undefined THEN 0 ELSE value[1]

PutNs(ns, k, v) == [x \in (DOMAIN ns) \cup {k} |-> IF x = k THEN v ELSE ns[x]]

\* db.getRange(): the values in ascending key order
RECURSIVE RangeFrom(_, _)
RangeFrom(ns, keys) ==
    IF keys = {} THEN <<>>
    ELSE LET k == CHOOSE x \in keys : \A y \in keys : x <= y
         IN  <<ns[k]>> \o RangeFrom(ns, keys \ {k})

getRange(ns) == RangeFrom(ns, DOMAIN ns)

\* the put() calls one saveAll issues, in program order
PutsOf(c, rs) == [i \in 1..Len(rs) |-> [ns |-> c, key |-> asId(rs[i].id), value |-> rs[i]]]

LmdbBatch(data, committed) ==
    Flatten([i \in 1..Len(Collections) |->
                PutsOf(Collections[i], toArray(data[Collections[i]]))])
    \o <<[ns |-> "meta", key |-> "site",
          value |-> IF data.site # Undefined THEN data.site ELSE committed.meta.site],
         [ns |-> "meta", key |-> "menu",
          value |-> IF data.menu # Undefined THEN data.menu ELSE committed.meta.menu]>>

ApplyPut(d, w) ==
    IF w.ns = "meta" THEN [d EXCEPT !.meta[w.key] = w.value]
    ELSE [d EXCEPT ![w.ns] = PutNs(@, w.key, w.value)]

RECURSIVE ApplyBatch(_, _)
ApplyBatch(d, ws) ==
    IF ws = <<>> THEN d ELSE ApplyBatch(ApplyPut(d, Head(ws)), Tail(ws))

LmdbRead(d) ==
    [posts |-> getRange(d.posts), categories |-> getRange(d.categories),
     tags |-> getRange(d.tags), authors |-> getRange(d.authors),
     pages |-> getRange(d.pages), site |-> d.meta.site, menu |-> d.meta.menu]

(***************************************************************************)
(* The three adapters, method by method.  Each operator takes the state    *)
(* the method reads and yields what it leaves behind and how it settles.   *)
(***************************************************************************)
Kinds == {"json", "memory", "lmdb"}

Resolved(v) == [status |-> "resolved", val |-> v]
Rejected(msg) == [status |-> "rejected", val |-> msg]

\* a getAll value: its content, and whether it is a new object ("fresh") or
\* the very object the adapter keeps ("internal")
Returned(v, a) == [status |-> "resolved", val |-> v, alias |-> a]
Thrown(msg) == [status |-> "rejected", val |-> msg, alias |-> "none"]

\* fs.existsSync: false on any error, never throws
existsSync(f, fault) == f # Null /\ ~fault

\* JsonAdapter.getAll
JsonGetAll(f, fault) ==
    IF ~existsSync(f, fault) THEN Thrown("JSON store missing")
    ELSE Returned(JSONparse(f[1]), "fresh")

\* a saveAll that adds the new posts to the document already on disk
JsonSaveAllMerging(f, fault, data) ==
    IF fault THEN [file |-> f, arg |-> data, status |-> "rejected"]
    ELSE [file |-> Some(JSONstringify(
                      IF f = Null THEN data
                      ELSE [data EXCEPT !.posts = JSONparse(f[1]).posts \o @])),
          arg |-> data, status |-> "resolved"]

\* JsonAdapter.saveAll: mkdirSync and writeFileSync throw on a failing disk
JsonSaveAll(f, fault, data) ==
    IF fault THEN [file |-> f, arg |-> data, status |-> "rejected"]
    ELSE [file |-> Some(JSONstringify(data)), arg |-> data, status |-> "resolved"]

\* JsonAdapter.health
JsonHealth(f, fault) == Resolved(existsSync(f, fault))

\* a getAll that hands out this.data itself
MemoryGetAllShared(d) ==
    IF d = Null THEN Thrown("Memory store is empty")
    ELSE Returned(d[1], "internal")

\* MemoryAdapter.getAll
MemoryGetAll(d) ==
    IF d = Null THEN Thrown("Memory store is empty")
    ELSE Returned(structuredClone(d[1]), "fresh")

\* MemoryAdapter.saveAll
MemorySaveAll(data) ==
    [data |-> Some(structuredClone(data)), arg |-> data, status |-> "resolved"]

\* a health that does not look at this.data
MemoryHealthAlways(d) == Resolved(d = d)

\* MemoryAdapter.health
MemoryHealth(d) == Resolved(d # Null)

\* LmdbAdapter.getAll: openDB and the range reads throw on a failing environment
LmdbGetAll(d, fault) ==
    IF fault THEN Thrown("MDB error") ELSE Returned(LmdbRead(d), "fresh")

\* a saveAll that writes the site and menu it falls back to into its argument
LmdbSaveAllFilling(d, p, fault, data) ==
    IF fault THEN [pending |-> p, arg |-> data, status |-> "rejected"]
    ELSE [pending |-> Append(p, LmdbBatch(data, d)),
          arg |-> [data EXCEPT !.site = IF @ # Undefined THEN @ ELSE d.meta.site,
                               !.menu = IF @ # Undefined THEN @ ELSE d.meta.menu],
          status |-> "resolved"]

\* LmdbAdapter.saveAll: the puts are issued and none of their promises is awaited
LmdbSaveAll(d, p, fault, data) ==
    IF fault THEN [pending |-> p, arg |-> data, status |-> "rejected"]
    ELSE [pending |-> Append(p, LmdbBatch(data, d)), arg |-> data, status |-> "resolved"]

\* db.getStats()
getStats(fault) == IF fault THEN "throw" ELSE "stats"

\* a health without the try/catch
LmdbHealthUncaught(fault) ==
    IF getStats(fault) = "throw" THEN Rejected("MDB error") ELSE Resolved(TRUE)

\* LmdbAdapter.health: try { await getStats(); return true } catch { return false }
LmdbHealth(fault) ==
    IF getStats(fault) = "throw" THEN Resolved(FALSE) ELSE Resolved(TRUE)

(***************************************************************************)
(* normalizeAdapterName.  A string is the sequence of its characters.      *)
(***************************************************************************)
LowerCase == <<"a","b","c","d","e","f","g","h","i","j","k","l","m",
               "n","o","p","q","r","s","t","u","v","w","x","y","z">>
UpperCase == <<"A","B","C","D","E","F","G","H","I","J","K","L","M",
               "N","O","P","Q","R","S","T","U","V","W","X","Y","Z">>

Str(chars) == [t |-> "string", chars |-> chars]
NullName == [t |-> "null", chars |-> <<>>]
UndefinedName == [t |-> "undefined", chars |-> <<>>]
NoName == [t |-> "none", chars |-> <<>>]

\* String.prototype.toUpperCase on the ASCII letters
UpperChar(ch) ==
    IF \E i \in 1..Len(LowerCase) : LowerCase[i] = ch
    THEN UpperCase[CHOOSE i \in 1..Len(LowerCase) : LowerCase[i] = ch]
    ELSE ch

toUpperCase(chars) == [i \in 1..Len(chars) |-> UpperChar(chars[i])]

\* String(value || ''): null, undefined and '' are falsy
StringOrEmpty(value) == IF value.t = "string" THEN value.chars ELSE <<>>

\* a switch on the value as given, not on its upper-cased form
normalizeAdapterNameExact(value) ==
    LET upper == StringOrEmpty(value)
    IN  CASE upper = <<"L","M","D","B">> -> "LMDB"
          [] upper = <<"I","N","D","E","X","E","D","D","B">> -> "IndexedDB"
          [] upper = <<"C","O","N","T","E","X","T","D","B">> -> "ContextDB"
          [] upper = <<"J","S","O","N","D","B">> -> "JsonDB"
          [] upper = <<"F","A","L","S","E">> -> "FALSE"
          [] OTHER -> "FALSE"

normalizeAdapterName(value) ==
    LET upper == toUpperCase(StringOrEmpty(value))
    IN  CASE upper = <<"L","M","D","B">> -> "LMDB"
          [] upper = <<"I","N","D","E","X","E","D","D","B">> -> "IndexedDB"
          [] upper = <<"C","O","N","T","E","X","T","D","B">> -> "ContextDB"
          [] upper = <<"J","S","O","N","D","B">> -> "JsonDB"
          [] upper = <<"F","A","L","S","E">> -> "FALSE"
          [] OTHER -> "FALSE"

AdapterNames == {"LMDB", "IndexedDB", "ContextDB", "JsonDB", "FALSE"}

(***************************************************************************)
(* The write path of the Sync Coordinator                                  *)
(***************************************************************************)
Modes == {"GETMODE", "SETMODE", "CRUDMODE"}

\* write operations: a valid one, and one the remote rejects on validation
Operations == {[name |-> "createPost", valid |-> TRUE],
               [name |-> "updatePost", valid |-> TRUE],
               [name |-> "createPost", valid |-> FALSE]}

\* a tagged outcome; entry is the queue entry identifier of Queued, detail the
\* remote's error detail of Rejected, the counts are those of a FlushReport
Outcome(op, tag, entry, detail) ==
    [op |-> op, tag |-> tag, entry |-> entry, detail |-> detail,
     flushed |-> 0, failed |-> 0, remaining |-> 0]

NoOutcome == Outcome("none", "none", 0, "")

\* a gate that lets every mode write
canWriteAnyMode(m) == m \in Modes

canWrite(m) == m # "GETMODE"

\* remote execution of one operation
Execute(up, operation) ==
    IF ~up THEN "unreachable"
    ELSE IF operation.valid THEN "success" ELSE "semantic-error"

\* an enqueue that keeps one entry per payload
EnqueueDeduplicating(q, n, operation) ==
    IF \E i \in 1..Len(q) : q[i].payload = operation
    THEN q
    ELSE Append(q, [id |-> n, payload |-> operation, status |-> "pending"])

\* an enqueue that puts the new entry at the head
EnqueueAtHead(q, n, operation) ==
    <<[id |-> n, payload |-> operation, status |-> "pending"]>> \o q

\* Mutation Queue enqueue: appended at the tail, status pending
Enqueue(q, n, operation) ==
    Append(q, [id |-> n, payload |-> operation, status |-> "pending"])

\* Mutation Queue list(): all entries, in the order they are kept
List(q) == q

\* the state of a flush before its first entry
FlushStart(log) ==
    [kept |-> <<>>, applied |-> log, tried |-> <<>>, flushed |-> 0, failed |-> 0]

\* one entry of a flush: the executor is invoked with the stored payload; on
\* success the entry is removed, on failure it is marked failed and kept
FlushEntry(e, up, acc) ==
    IF Execute(up, e.payload) = "success"
    THEN [acc EXCEPT !.applied = Append(@, e.payload),
                     !.tried = Append(@, e.id),
                     !.flushed = @ + 1]
    ELSE [acc EXCEPT !.kept = Append(@, [e EXCEPT !.status = "failed"]),
                     !.tried = Append(@, e.id),
                     !.failed = @ + 1]

RECURSIVE FlushFrom(_, _, _)
FlushFrom(q, up, acc) ==
    IF q = <<>> THEN acc ELSE FlushFrom(Tail(q), up, FlushEntry(Head(q), up, acc))

RECURSIVE FlushUntilFailure(_, _, _)
FlushUntilFailure(q, up, acc) ==
    IF q = <<>> THEN acc
    ELSE LET next == FlushEntry(Head(q), up, acc)
         IN  IF next.failed > 0
             THEN [next EXCEPT !.kept = @ \o Tail(q)]
             ELSE FlushUntilFailure(Tail(q), up, next)

\* a flush that stops at the first entry that fails
FlushAborting(q, up, log) == FlushUntilFailure(List(q), up, FlushStart(log))

\* Mutation Queue flush(executor): every entry of list(), in that order
Flush(q, up, log) == FlushFrom(List(q), up, FlushStart(log))

\* probe(): the coordinator's reachability check of the remote
Probe(up) == IF up THEN "Online" ELSE "Offline"

FlushReport(flushed, failed, remaining) ==
    [op |-> "flushQueue", tag |-> "FlushReport", entry |-> 0, detail |-> "",
     flushed |-> flushed, failed |-> failed, remaining |-> remaining]

\* flushQueue: delegates to flush only if probe() reports Online
FlushQueueResult(q, up, log) ==
    IF Probe(up) = "Online"
    THEN LET f == Flush(q, up, log)
         IN  [queue |-> f.kept, applied |-> f.applied, tried |-> f.tried,
              report |-> FlushReport(f.flushed, f.failed, Len(f.kept))]
    ELSE [queue |-> q, applied |-> log, tried |-> <<>>,
          report |-> FlushReport(0, 0, Len(q))]

\* the error detail the remote gives for an operation it refuses
ErrorDetail(operation) == IF operation.valid THEN "" ELSE "validation"

\* submitWrite steps 3-5 with Queued returned and nothing enqueued
AnsweredWithoutQueue(answer, q, log, n, operation) ==
    CASE answer = "success" ->
            [tag |-> "Applied", entry |-> 0, detail |-> "", queue |-> q,
             applied |-> Append(log, operation)]
      [] answer = "unreachable" ->
            [tag |-> "Queued", entry |-> n, detail |-> "", queue |-> q, applied |-> log]
      [] answer = "semantic-error" ->
            [tag |-> "Rejected", entry |-> 0, detail |-> ErrorDetail(operation),
             queue |-> q, applied |-> log]

\* submitWrite steps 3-5 with every failure of the remote attempt enqueued
AnsweredQueueingAll(answer, q, log, n, operation) ==
    IF answer = "success"
    THEN [tag |-> "Applied", entry |-> 0, detail |-> "", queue |-> q,
          applied |-> Append(log, operation)]
    ELSE [tag |-> "Queued", entry |-> n, detail |-> "",
          queue |-> Enqueue(q, n, operation), applied |-> log]

\* submitWrite steps 3-5: the outcome for the remote's answer
Answered(answer, q, log, n, operation) ==
    CASE answer = "success" ->
            [tag |-> "Applied", entry |-> 0, detail |-> "", queue |-> q,
             applied |-> Append(log, operation)]
      [] answer = "unreachable" ->
            [tag |-> "Queued", entry |-> n, detail |-> "",
             queue |-> Enqueue(q, n, operation), applied |-> log]
      [] answer = "semantic-error" ->
            [tag |-> "Rejected", entry |-> 0, detail |-> ErrorDetail(operation),
             queue |-> q, applied |-> log]

\* submitWrite: what it returns and what it leaves in the queue and on the remote
SubmitWriteResult(m, up, q, log, n, operation) ==
    IF ~canWrite(m)
    THEN [tag |-> "WriteForbidden", entry |-> 0, detail |-> "", queue |-> q,
          applied |-> log]
    ELSE Answered(Execute(up, operation), q, log, n, operation)

(***************************************************************************)
(* The admin UI's calls to the API server (lib/graphql)                    *)
(***************************************************************************)
\* how a fetch() ends: "ok" an OK response with a JSON body, "down" a network
\* error, "notok" a response whose ok is false, "garbled" an OK response whose
\* body is not JSON
NetConditions == {"ok", "down", "notok", "garbled"}

\* the body {} of a response that is not the API's answer
EmptyBody == [empty |-> TRUE]

\* a promise rejected with an Error
Failed(message) == [status |-> "rejected", val |-> [error |-> message]]

\* fetch(): rejects on a network error, resolves to a Response otherwise
fetch(n, body) ==
    IF n = "down"
    THEN Failed("TypeError: Failed to fetch")
    ELSE Resolved([ok |-> n # "notok", readable |-> n # "garbled",
                   body |-> IF n = "ok" THEN body ELSE EmptyBody])

\* Response.json(): rejects when the body is not JSON
json(res) == IF res.readable THEN Resolved(res.body) ELSE Failed("SyntaxError")

\* offline.helper interceptedFetch, without its delay and error rate
interceptedFetch(c, n, body) ==
    IF c.offline THEN Failed("TypeError: Failed to fetch") ELSE fetch(n, body)

\* globalThis.fetch(...), whichever function is installed
globalFetch(c, n, body) ==
    IF c.fetch = "interceptedFetch" THEN interceptedFetch(c, n, body) ELSE fetch(n, body)

\* fetchGraphQL: no res.ok test and no try/catch
fetchGraphQL(res) ==
    IF res.status = "rejected" THEN res ELSE json(res.val)

\* the try block shared by the calls below: fetch, throw unless res.ok, res.json()
TryJson(res, message) ==
    IF res.status = "rejected" THEN res
    ELSE IF ~res.val.ok THEN Failed(message)
    ELSE json(res.val)

OfflineStatus ==
    [status |-> "offline", message |-> Some("API server not available"),
     mode |-> Undefined, upstream |-> Undefined, queuedMutations |-> Undefined]

\* fetchApiHealth with the catch clause left out
fetchApiHealthUncaught(res) == TryJson(res, "API unavailable")

\* fetchApiHealth
fetchApiHealth(res) ==
    LET try == TryJson(res, "API unavailable")
    IN  IF try.status = "rejected" THEN Resolved(OfflineStatus) ELSE try

SyncUnavailable ==
    [success |-> FALSE, error |-> Some("API unavailable - working offline"),
     counts |-> Undefined]

\* syncLocalDatabase
syncLocalDatabase(res) ==
    LET try == TryJson(res, "Sync failed")
    IN  IF try.status = "rejected" THEN Resolved(SyncUnavailable) ELSE try

FlushUnavailable ==
    [success |-> FALSE, error |-> Some("API unavailable - mutations queued locally"),
     flushed |-> Undefined, failed |-> Undefined, remaining |-> Undefined]

\* flushMutationQueue
flushMutationQueue(res) ==
    LET try == TryJson(res, "Flush failed")
    IN  IF try.status = "rejected" THEN Resolved(FlushUnavailable) ELSE try

LocalDataUnavailable ==
    [data |-> Null, offline |-> TRUE,
     message |-> Some("Working in offline mode - no cached data available")]

\* getLocalData with the catch clause left out
getLocalDataUncaught(res) == TryJson(res, "Data unavailable")

\* getLocalData
getLocalData(res) ==
    LET try == TryJson(res, "Data unavailable")
    IN  IF try.status = "rejected" THEN Resolved(LocalDataUnavailable) ELSE try

QueueUnavailable == [queue |-> <<>>, offline |-> TRUE]

\* getQueuedMutations
getQueuedMutations(res) ==
    LET try == TryJson(res, "Queue unavailable")
    IN  IF try.status = "rejected" THEN Resolved(QueueUnavailable) ELSE try

\* res.errors and res.extensions?.queued of a parsed body; {} has neither
HasErrors(body) == "errors" \in DOMAIN body /\ body.errors # Undefined

IsQueued(body) == "queued" \in DOMAIN body /\ body.queued

\* PostEditor.handleSubmit: the message it sets once fetchGraphQL has settled
PostEditorMessage(r) ==
    IF r.status = "rejected" THEN [type |-> "error", text |-> "Failed to save post"]
    ELSE IF HasErrors(r.val) THEN [type |-> "error", text |-> r.val.errors[1]]
    ELSE IF IsQueued(r.val) THEN [type |-> "warning", text |-> "queued for when online"]
    ELSE [type |-> "success", text |-> "Post saved!"]

\* CategoriesList.handleCreate: what the user sees once fetchGraphQL has settled
CategoriesShown(r) ==
    IF r.status = "rejected" THEN "nothing"
    ELSE IF HasErrors(r.val) THEN "alert"
    ELSE "list reloaded, form closed"

\* an isOnline that looks at the answer's status field only
isOnlineWhenAnswered(status) ==
    status # Null /\ status[1].status = "ok"

\* AdminLayout: isOnline and queueCount
isOnline(status) ==
    status # Null /\ status[1].upstream = Some("configured")

queueCount(status) ==
    IF status = Null \/ status[1].queuedMutations = Undefined
    THEN 0
    ELSE status[1].queuedMutations[1]

\* the condition the layout shows: nothing before the first answer
Condition(status) ==
    IF status = Null THEN "Unknown"
    ELSE IF isOnline(status) THEN "Online" ELSE "Offline"

\* AdminLayout: whether the Flush Queue button is rendered
FlushButtonShown(status) ==
    /\ status # Null
    /\ status[1].mode = Some("SETMODE")
    /\ queueCount(status) > 0

(***************************************************************************)
(* What the API server answers                                             *)
(***************************************************************************)
\* GET /health
HealthBody(m, up, q) ==
    [status |-> "ok", message |-> Undefined, mode |-> Some(m),
     upstream |-> Some(IF up THEN "configured" ELSE "unreachable"),
     queuedMutations |-> Some(Len(q))]

\* POST /local/sync: pullSnapshot
PullSnapshotResult(up, stored) ==
    IF Probe(up) = "Online"
    THEN [stored |-> MemorySaveAll(sampleCollections).data,
          body |-> [success |-> TRUE, error |-> Undefined,
                    counts |-> Some(Len(sampleCollections.posts))]]
    ELSE [stored |-> stored,
          body |-> [success |-> FALSE, error |-> Some("RemoteUnavailable"),
                    counts |-> Undefined]]

\* GET /local/data: the stored snapshot
LocalDataBody(stored) == [data |-> stored, offline |-> FALSE, message |-> Undefined]

\* GET /queue: the queued mutations
QueueBody(q) == [queue |-> List(q), offline |-> FALSE]

\* POST /flush: the FlushReport as a body
FlushBody(report) ==
    [success |-> TRUE, error |-> Undefined, flushed |-> Some(report.flushed),
     failed |-> Some(report.failed), remaining |-> Some(report.remaining)]

\* POST /graphql: the outcome of submitWrite as a GraphQLResponse
GraphQLBody(r, operation) ==
    [data |-> IF r.tag = "Applied" THEN Some(operation.name) ELSE Undefined,
     errors |-> IF r.tag \in {"Rejected", "WriteForbidden"}
                THEN Some(IF r.tag = "Rejected" THEN r.detail ELSE "forbidden")
                ELSE Undefined,
     queued |-> r.tag = "Queued",
     queueId |-> IF r.tag = "Queued" THEN Some(r.entry) ELSE Undefined]

(***************************************************************************)
(* Operations                                                              *)
(***************************************************************************)
Settled(op, status, val, idx) == [op |-> op, status |-> status, val |-> val, idx |-> idx]

AdapterInit(h) ==
    /\ kind \in Kinds
    /\ file = Null
    /\ memData = Null
    /\ db = EmptyDb
    /\ pending = <<>>
    /\ storeFault = FALSE
    /\ saves = 0
    /\ lastArg = Null
    /\ argOrig = Null
    /\ prevArg = Null
    /\ hold = h
    /\ results = <<>>
    /\ out = Settled("new", "none", "none", 0)

\* no adapter is constructed (the backend kind is FALSE)
AdapterIdle ==
    /\ kind = "none"
    /\ file = Null
    /\ memData = Null
    /\ db = EmptyDb
    /\ pending = <<>>
    /\ storeFault = FALSE
    /\ saves = 0
    /\ lastArg = Null
    /\ argOrig = Null
    /\ prevArg = Null
    /\ hold = 1
    /\ results = <<>>
    /\ out = Settled("new", "none", "none", 0)

NameIdle ==
    /\ nameIn = NoName
    /\ nameOut = ""

\* createOfflineContext(): nothing called on it yet
NoContext == [offline |-> FALSE, fetch |-> "originalFetch", last |-> "none"]

NoCall == [fn |-> "none", status |-> "none", val |-> EmptyBody]

Called(fn, r) == [fn |-> fn, status |-> r.status, val |-> r.val]

ClientIdle ==
    /\ net = "down"
    /\ apiStatus = Null
    /\ fetches = 0
    /\ cout = NoCall
    /\ ctx = NoContext

CoordIdle ==
    /\ mode = "GETMODE"
    /\ online = FALSE
    /\ queue = <<>>
    /\ applied = <<>>
    /\ writes = 0
    /\ outcome = NoOutcome
    /\ inflight = <<>>
    /\ enqueued = 0
    /\ attempts = <<>>
    /\ ClientIdle

Init == AdapterInit(1) /\ NameIdle /\ CoordIdle

SaveAll(data) ==
    /\ saves < MaxSaves
    /\ LET r == CASE kind = "json" -> JsonSaveAll(file, storeFault, data)
                  [] kind = "memory" -> MemorySaveAll(data)
                  [] kind = "lmdb" -> LmdbSaveAll(db, pending, storeFault, data)
       IN  /\ file' = IF kind = "json" THEN r.file ELSE file
           /\ memData' = IF kind = "memory" THEN r.data ELSE memData
           /\ pending' = IF kind = "lmdb" THEN r.pending ELSE pending
           /\ lastArg' = Some(r.arg)
           /\ saves' = IF r.status = "resolved" THEN saves + 1 ELSE saves
           /\ out' = Settled("saveAll", r.status, "void", 0)
    /\ argOrig' = Some(data)
    /\ prevArg' = argOrig
    /\ results' = <<>>
    /\ UNCHANGED <<kind, db, storeFault, hold>>
    /\ UNCHANGED <<nameVars, coordVars>>

\* the caller keeps the values of its latest h getAll calls
Keep(rs, h, r) ==
    Append(IF Len(rs) = h THEN Tail(rs) ELSE rs, [alias |-> r.alias, val |-> r.val])

GetAll ==
    /\ LET r == CASE kind = "json" -> JsonGetAll(file, storeFault)
                  [] kind = "memory" -> MemoryGetAll(memData)
                  [] kind = "lmdb" -> LmdbGetAll(db, storeFault)
       IN  /\ results' = IF r.status = "resolved" THEN Keep(results, hold, r) ELSE results
           /\ out' = Settled("getAll", r.status,
                             IF r.status = "resolved" THEN "snapshot" ELSE r.val, 0)
    /\ UNCHANGED <<kind, file, memData, db, pending, storeFault, saves,
                   lastArg, argOrig, prevArg, hold>>
    /\ UNCHANGED <<nameVars, coordVars>>

Health ==
    /\ LET r == CASE kind = "json" -> JsonHealth(file, storeFault)
                  [] kind = "memory" -> MemoryHealth(memData)
                  [] kind = "lmdb" -> LmdbHealth(storeFault)
       IN  out' = Settled("health", r.status,
                          IF r.status = "rejected" THEN "error"
                          ELSE IF r.val THEN "true" ELSE "false", 0)
    /\ UNCHANGED <<kind, file, memData, db, pending, storeFault, saves,
                   lastArg, argOrig, prevArg, hold, results>>
    /\ UNCHANGED <<nameVars, coordVars>>

\* a store that commits the puts of a batch one by one
LmdbCommitOnePut ==
    /\ kind = "lmdb"
    /\ pending # <<>>
    /\ ~storeFault
    /\ db' = ApplyPut(db, Head(Head(pending)))
    /\ pending' = IF Len(Head(pending)) = 1 THEN Tail(pending)
                  ELSE <<Tail(Head(pending))>> \o Tail(pending)
    /\ out' = Settled("commit", "none", "none", 0)
    /\ UNCHANGED <<kind, file, memData, storeFault, saves, lastArg, argOrig,
                   prevArg, hold, results>>
    /\ UNCHANGED <<nameVars, coordVars>>

\* LMDB commits the oldest batch of puts in one write transaction
LmdbCommit ==
    /\ kind = "lmdb"
    /\ pending # <<>>
    /\ ~storeFault
    /\ db' = ApplyBatch(db, Head(pending))
    /\ pending' = Tail(pending)
    /\ out' = Settled("commit", "none", "none", 0)
    /\ UNCHANGED <<kind, file, memData, storeFault, saves, lastArg, argOrig,
                   prevArg, hold, results>>
    /\ UNCHANGED <<nameVars, coordVars>>

\* the caller pushes a record onto the posts of a value it got from getAll
NewRec == [id |-> Some(999), title |-> "New"]

Pushed(v) == [v EXCEPT !.posts = Append(@, NewRec)]

ResultAt(rs, md, i) == IF rs[i].alias = "internal" THEN md[1] ELSE rs[i].val

MutateResult(i) ==
    /\ i \in 1..Len(results)
    /\ \A k \in 1..Len(ResultAt(results, memData, i).posts) :
           ResultAt(results, memData, i).posts[k] # NewRec
    /\ IF results[i].alias = "internal"
       THEN /\ memData' = Some(Pushed(memData[1]))
            /\ UNCHANGED results
       ELSE /\ results' = [results EXCEPT ![i].val = Pushed(@)]
            /\ UNCHANGED memData
    /\ out' = Settled("mutate", "none", "none", i)
    /\ UNCHANGED <<kind, file, db, pending, storeFault, saves, lastArg, argOrig,
                   prevArg, hold>>
    /\ UNCHANGED <<nameVars, coordVars>>

\* the disk or the LMDB environment starts or stops failing
StoreFault ==
    /\ kind # "memory"
    /\ storeFault' = ~storeFault
    /\ out' = Settled("fault", "none", "none", 0)
    /\ UNCHANGED <<kind, file, memData, db, pending, saves, lastArg, argOrig,
                   prevArg, hold, results>>
    /\ UNCHANGED <<nameVars, coordVars>>

\* dispose(): MemoryAdapter clears this.data, the file-backed test adapter
\* removes its file; LmdbAdapter has no dispose
Dispose ==
    /\ kind \in {"memory", "json"}
    /\ memData' = Null
    /\ file' = Null
    /\ out' = Settled("dispose", "resolved", "void", 0)
    /\ UNCHANGED <<kind, db, pending, storeFault, saves, lastArg, argOrig,
                   prevArg, hold, results>>
    /\ UNCHANGED <<nameVars, coordVars>>

SaveAllAny == \E data \in Snapshots : SaveAll(data)

Next == SaveAllAny \/ GetAll \/ Health \/ LmdbCommit

Spec == Init /\ [][Next]_vars

\* the caller holds several getAll values and writes to them
InitAlias == AdapterInit(MaxResults) /\ NameIdle /\ CoordIdle

NextAlias ==
    \/ \E data \in FewSnapshots : SaveAll(data)
    \/ GetAll
    \/ LmdbCommit
    \/ \E i \in 1..MaxResults : MutateResult(i)

SpecAlias == InitAlias /\ [][NextAlias]_vars

\* the adapter may be disposed of
NextDispose ==
    \/ \E data \in FewSnapshots : SaveAll(data)
    \/ GetAll
    \/ Health
    \/ LmdbCommit
    \/ Dispose

SpecDispose == Init /\ [][NextDispose]_vars

\* the backing store may fail
NextFault ==
    \/ \E data \in FewSnapshots : SaveAll(data)
    \/ GetAll
    \/ Health
    \/ LmdbCommit
    \/ StoreFault

SpecFault == Init /\ [][NextFault]_vars

(***************************************************************************)
(* Adapter selection                                                       *)
(***************************************************************************)
RECURSIVE CaseVariants(_)
CaseVariants(upper) ==
    IF upper = <<>> THEN {<<>>}
    ELSE LET i == CHOOSE k \in 1..Len(UpperCase) : UpperCase[k] = Head(upper)
         IN  {<<ch>> \o rest : ch \in {UpperCase[i], LowerCase[i]},
                                rest \in CaseVariants(Tail(upper))}

RECURSIVE StringsUpTo(_, _)
StringsUpTo(alphabet, n) ==
    IF n = 0 THEN {<<>>}
    ELSE LET shorter == StringsUpTo(alphabet, n - 1)
         IN  shorter \cup {Append(w, ch) : w \in shorter, ch \in alphabet}

KnownNames == {<<"L","M","D","B">>, <<"I","N","D","E","X","E","D","D","B">>,
               <<"C","O","N","T","E","X","T","D","B">>, <<"J","S","O","N","D","B">>,
               <<"F","A","L","S","E">>}

NameInputs ==
    {NullName, UndefinedName}
    \cup {Str(w) : w \in UNION {CaseVariants(k) : k \in KnownNames}}
    \cup {Str(w) : w \in StringsUpTo({"l", "M", "d", "b", " ", "-", "1"}, MaxNameLen)}
    \cup {Str(<<"m","y","s","q","l">>), Str(<<" ","l","m","d","b">>),
          Str(<<"l","m","d","b"," ">>), Str(<<"l","m","d","b","1">>),
          Str(<<"j","s","o","n">>),
          Str(<<"r","a","n","d","o","m","-","v","a","l","u","e">>)}

InitName == AdapterIdle /\ CoordIdle /\ nameIn \in NameInputs /\ nameOut = ""

Normalize ==
    /\ nameOut = ""
    /\ nameOut' = normalizeAdapterName(nameIn)
    /\ UNCHANGED <<nameIn, adapterVars, coordVars>>

NextName == Normalize

SpecName == InitName /\ [][NextName]_vars

(***************************************************************************)
(* Coordinator                                                             *)
(***************************************************************************)
InitCoord ==
    /\ AdapterIdle
    /\ NameIdle
    /\ mode \in Modes
    /\ online \in BOOLEAN
    /\ queue = <<>>
    /\ applied = <<>>
    /\ writes = 0
    /\ outcome = NoOutcome
    /\ inflight = <<>>
    /\ enqueued = 0
    /\ attempts = <<>>
    /\ ClientIdle

\* a submitWrite call that runs to its outcome with no other call in between
SubmitWrite(operation) ==
    /\ writes < MaxWrites
    /\ Len(queue) < MaxQueue
    /\ LET r == SubmitWriteResult(mode, online, queue, applied, enqueued + 1, operation)
       IN  /\ queue' = r.queue
           /\ applied' = r.applied
           /\ enqueued' = IF r.tag = "Queued" THEN enqueued + 1 ELSE enqueued
           /\ outcome' = Outcome("submitWrite", r.tag, r.entry, r.detail)
    /\ writes' = writes + 1
    /\ UNCHANGED <<mode, online, inflight, attempts, adapterVars, nameVars, clientVars>>

\* a submitWrite call passes the Mode Gate and gets the remote's answer
SubmitBegin(operation) ==
    /\ writes < MaxWrites
    /\ Len(inflight) < MaxInflight
    /\ canWrite(mode)
    /\ inflight' = Append(inflight, [call |-> writes + 1, operation |-> operation,
                                      answer |-> Execute(online, operation)])
    /\ writes' = writes + 1
    /\ UNCHANGED <<mode, online, queue, applied, outcome, enqueued, attempts,
                   adapterVars, nameVars, clientVars>>

\* a submitWrite call that has its answer settles: steps 3-5
SubmitEnd(i) ==
    /\ i \in 1..Len(inflight)
    /\ Len(queue) < MaxQueue
    /\ LET c == inflight[i]
           r == Answered(c.answer, queue, applied, enqueued + 1, c.operation)
       IN  /\ queue' = r.queue
           /\ applied' = r.applied
           /\ enqueued' = IF r.tag = "Queued" THEN enqueued + 1 ELSE enqueued
           /\ outcome' = Outcome("submitWrite", r.tag, r.entry, r.detail)
    /\ inflight' = SubSeq(inflight, 1, i - 1) \o SubSeq(inflight, i + 1, Len(inflight))
    /\ UNCHANGED <<mode, online, writes, attempts, adapterVars, nameVars, clientVars>>

FlushQueue ==
    /\ LET r == FlushQueueResult(queue, online, applied)
       IN  /\ queue' = r.queue
           /\ applied' = r.applied
           /\ attempts' = r.tried
           /\ outcome' = r.report
    /\ UNCHANGED <<mode, online, writes, inflight, enqueued, adapterVars, nameVars, clientVars>>

\* the remote becomes reachable or unreachable
RemoteToggle ==
    /\ online' = ~online
    /\ UNCHANGED <<mode, queue, applied, writes, outcome, inflight, enqueued, attempts,
                   adapterVars, nameVars, clientVars>>

NextCoord ==
    \/ \E operation \in Operations : SubmitWrite(operation)
    \/ \E operation \in Operations : SubmitBegin(operation)
    \/ \E i \in 1..MaxInflight : SubmitEnd(i)
    \/ FlushQueue
    \/ RemoteToggle

SpecCoord == InitCoord /\ [][NextCoord]_vars

(***************************************************************************)
(* Admin UI against the API server                                         *)
(***************************************************************************)
serverVars == <<mode, online, queue, applied, writes, outcome, inflight, enqueued, attempts>>

\* the API server runs with the in-memory adapter
InitClient ==
    /\ AdapterInit(1)
    /\ kind = "memory"
    /\ NameIdle
    /\ mode \in Modes
    /\ online \in BOOLEAN
    /\ queue = <<>>
    /\ applied = <<>>
    /\ writes = 0
    /\ outcome = NoOutcome
    /\ inflight = <<>>
    /\ enqueued = 0
    /\ attempts = <<>>
    /\ net \in NetConditions
    /\ apiStatus = Null
    /\ fetches = 0
    /\ cout = NoCall
    /\ ctx = NoContext

\* AdminLayout health polling:
\* fetchApiHealth().then(setApiStatus).catch(() => setApiStatus(null))
PollHealth ==
    /\ fetches < MaxFetches
    /\ LET r == fetchApiHealth(fetch(net, HealthBody(mode, online, queue)))
       IN  /\ cout' = Called("fetchApiHealth", r)
           /\ apiStatus' = IF r.status = "resolved" THEN Some(r.val) ELSE Null
    /\ fetches' = fetches + 1
    /\ UNCHANGED <<net, serverVars, adapterVars, nameVars, ctx>>

\* syncLocalDatabase(); the API server, if the request reaches it, pulls
SyncLocalDatabase ==
    /\ fetches < MaxFetches
    /\ LET pull == PullSnapshotResult(online, memData)
           r == syncLocalDatabase(fetch(net, pull.body))
       IN  /\ cout' = Called("syncLocalDatabase", r)
           /\ memData' = IF net = "ok" THEN pull.stored ELSE memData
    /\ fetches' = fetches + 1
    /\ UNCHANGED <<net, apiStatus, serverVars, nameVars, ctx>>
    /\ UNCHANGED <<kind, file, db, pending, storeFault, saves, lastArg, argOrig,
                   prevArg, hold, results, out>>

\* flushMutationQueue(); the API server, if the request reaches it, runs flushQueue
FlushMutationQueue ==
    /\ fetches < MaxFetches
    /\ LET f == FlushQueueResult(queue, online, applied)
           r == flushMutationQueue(fetch(net, FlushBody(f.report)))
       IN  /\ cout' = Called("flushMutationQueue", r)
           /\ queue' = IF net = "ok" THEN f.queue ELSE queue
           /\ applied' = IF net = "ok" THEN f.applied ELSE applied
           /\ attempts' = IF net = "ok" THEN f.tried ELSE attempts
           /\ outcome' = IF net = "ok" THEN f.report ELSE outcome
    /\ fetches' = fetches + 1
    /\ UNCHANGED <<net, apiStatus, mode, online, writes, inflight, enqueued,
                   adapterVars, nameVars, ctx>>

\* fetchGraphQL() with a mutation; the API server, if the request reaches it,
\* runs submitWrite
FetchGraphQL(operation) ==
    /\ fetches < MaxFetches
    /\ writes < MaxWrites
    /\ Len(queue) < MaxQueue
    /\ LET w == SubmitWriteResult(mode, online, queue, applied, enqueued + 1, operation)
           r == fetchGraphQL(fetch(net, GraphQLBody(w, operation)))
           reached == net = "ok"
       IN  /\ cout' = Called("fetchGraphQL", r)
           /\ queue' = IF reached THEN w.queue ELSE queue
           /\ applied' = IF reached THEN w.applied ELSE applied
           /\ enqueued' = IF reached /\ w.tag = "Queued" THEN enqueued + 1 ELSE enqueued
           /\ outcome' = IF reached
                         THEN Outcome("submitWrite", w.tag, w.entry, w.detail)
                         ELSE outcome
           /\ writes' = IF reached THEN writes + 1 ELSE writes
    /\ fetches' = fetches + 1
    /\ UNCHANGED <<net, apiStatus, mode, online, inflight, attempts, adapterVars, nameVars, ctx>>

\* getLocalData()
GetLocalData ==
    /\ fetches < MaxFetches
    /\ cout' = Called("getLocalData", getLocalData(fetch(net, LocalDataBody(memData))))
    /\ fetches' = fetches + 1
    /\ UNCHANGED <<net, apiStatus, serverVars, adapterVars, nameVars, ctx>>

\* getQueuedMutations()
GetQueuedMutations ==
    /\ fetches < MaxFetches
    /\ cout' = Called("getQueuedMutations", getQueuedMutations(fetch(net, QueueBody(queue))))
    /\ fetches' = fetches + 1
    /\ UNCHANGED <<net, apiStatus, serverVars, adapterVars, nameVars, ctx>>

\* the connection between the admin UI and the API server changes
NetChange ==
    /\ net' \in NetConditions \ {net}
    /\ UNCHANGED <<apiStatus, fetches, cout, serverVars, adapterVars, nameVars, ctx>>

NextClient ==
    \/ PollHealth
    \/ SyncLocalDatabase
    \/ FlushMutationQueue
    \/ \E operation \in Operations : FetchGraphQL(operation)
    \/ GetLocalData
    \/ GetQueuedMutations
    \/ NetChange
    \/ RemoteToggle

SpecClient == InitClient /\ [][NextClient]_vars

\* The offline test context: each call sets state.offline and globalThis.fetch
restVars == <<net, apiStatus, fetches, cout, serverVars, adapterVars, nameVars>>

GoOffline ==
    /\ ctx' = [offline |-> TRUE, fetch |-> "interceptedFetch", last |-> "goOffline"]
    /\ UNCHANGED restVars

\* a goOnline that puts the original fetch back and leaves state.offline
GoOnlineFetchOnly ==
    /\ ctx' = [offline |-> ctx.offline, fetch |-> "originalFetch", last |-> "goOnline"]
    /\ UNCHANGED restVars

GoOnline ==
    /\ ctx' = [offline |-> FALSE, fetch |-> "originalFetch", last |-> "goOnline"]
    /\ UNCHANGED restVars

\* mockNetworkError() { this.goOffline() }
MockNetworkError ==
    /\ ctx' = [offline |-> TRUE, fetch |-> "interceptedFetch", last |-> "mockNetworkError"]
    /\ UNCHANGED restVars

Restore ==
    /\ ctx' = [offline |-> FALSE, fetch |-> "originalFetch", last |-> "restore"]
    /\ UNCHANGED restVars

\* fetchApiHealth() while the context is in place
ContextHealth ==
    /\ fetches < MaxFetches
    /\ cout' = Called("fetchApiHealth",
                      fetchApiHealth(globalFetch(ctx, net, HealthBody(mode, online, queue))))
    /\ fetches' = fetches + 1
    /\ UNCHANGED <<net, apiStatus, serverVars, adapterVars, nameVars>>
    /\ UNCHANGED ctx

NextOffline ==
    \/ GoOffline
    \/ GoOnline
    \/ MockNetworkError
    \/ Restore
    \/ ContextHealth
    \/ NetChange

SpecOffline == InitClient /\ [][NextOffline]_vars

\* A call in two steps: the request leaves, and the promise settles when
\* fetch() settles.  On a silent connection the request is accepted and no
\* response ever arrives; no call sets a timer and the writes pass no signal.
Pending(fn) == [fn |-> fn, status |-> "pending", val |-> EmptyBody]

InitAwait ==
    /\ AdapterInit(1)
    /\ kind = "memory"
    /\ NameIdle
    /\ mode \in Modes
    /\ online \in BOOLEAN
    /\ queue = <<>>
    /\ applied = <<>>
    /\ writes = 0
    /\ outcome = NoOutcome
    /\ inflight = <<>>
    /\ enqueued = 0
    /\ attempts = <<>>
    /\ net \in NetConditions \cup {"silent"}
    /\ apiStatus = Null
    /\ fetches = 0
    /\ cout = NoCall
    /\ ctx = NoContext

\* await fetch(...): the request is sent
Send(fn) ==
    /\ cout.status # "pending"
    /\ fetches < MaxFetches
    /\ fn = "fetchGraphQL" => (writes < MaxWrites /\ Len(queue) < MaxQueue)
    /\ cout' = Pending(fn)
    /\ UNCHANGED <<net, apiStatus, fetches, serverVars, adapterVars, nameVars, ctx>>

\* fetch() settles and the rest of the call runs
Receive ==
    /\ cout.status = "pending"
    /\ net # "silent"
    /\ \/ cout.fn = "fetchApiHealth" /\ PollHealth
       \/ cout.fn = "syncLocalDatabase" /\ SyncLocalDatabase
       \/ cout.fn = "flushMutationQueue" /\ FlushMutationQueue
       \/ cout.fn = "fetchGraphQL" /\ \E operation \in Operations : FetchGraphQL(operation)

NetChangeAwait ==
    /\ net' \in (NetConditions \cup {"silent"}) \ {net}
    /\ UNCHANGED <<apiStatus, fetches, cout, serverVars, adapterVars, nameVars, ctx>>

NextAwait ==
    \/ \E fn \in {"fetchApiHealth", "syncLocalDatabase", "flushMutationQueue",
                 "fetchGraphQL"} : Send(fn)
    \/ Receive
    \/ NetChangeAwait
    \/ RemoteToggle

\* a response that arrives is eventually handled
SpecAwait == InitAwait /\ [][NextAwait]_vars /\ WF_vars(Receive)

(***************************************************************************)
(* Properties of the storage adapters                                      *)
(***************************************************************************)
LastResult == results[Len(results)].val

\* the data-model invariant of a snapshot: every record carries a numeric id
\* and no id occurs twice in a collection
WellFormed(S) ==
    \A c \in CollectionNames :
        /\ \A i \in 1..Len(S[c]) : S[c][i].id # Undefined
        /\ \A i, j \in 1..Len(S[c]) : i # j => S[c][i].id # S[c][j].id

SuppliedIds(rs) == {rs[i].id : i \in 1..Len(rs)} \ {Undefined}

WithIds(rs, ids) == LET Among(r) == r.id \in ids IN SelectSeq(rs, Among)

HasRecord(rs, r) == \E i \in 1..Len(rs) : rs[i] = r

\* C1: after saveAll(S), getAll() resolves to a value structurally equal to S,
\* site and menu included; on the LMDB adapter the records are compared for
\* the ids present in S only.
C1_RoundTrip ==
    (out.op = "getAll" /\ saves > 0) =>
        /\ out.status = "resolved"
        /\ LET S == argOrig[1]
           IN  IF kind = "lmdb"
               THEN WellFormed(S) =>
                        /\ \A c \in CollectionNames :
                               WithIds(LastResult[c], SuppliedIds(S[c])) = S[c]
                        /\ LastResult.site = S.site
                        /\ LastResult.menu = S.menu
               ELSE LastResult = S

\* C2: getAll() before any saveAll has completed rejects, on every adapter.
C2_GetAllBeforeSaveFails ==
    (out.op = "getAll" /\ saves = 0) => out.status = "rejected"

\* C3: health() is false before the first saveAll and true after one has
\* completed, on every adapter.
C3_HealthTracksFirstSave ==
    out.op = "health" => out.val = (IF saves = 0 THEN "false" ELSE "true")

\* C4: on the JSON and memory adapters saveAll(S1) then saveAll(S2) leaves
\* exactly S2: getAll() equals S2 and returns no record whose id S1 had and
\* S2 has not.
C4_FullReplace ==
    (kind \in {"json", "memory"} /\ out.op = "getAll" /\ prevArg # Null) =>
        /\ out.status = "resolved"
        /\ LastResult = argOrig[1]
        /\ \A c \in CollectionNames :
               \A id \in SuppliedIds(prevArg[1][c]) \ SuppliedIds(argOrig[1][c]) :
                   WithIds(LastResult[c], {id}) = <<>>

C4_Witness ==
    /\ kind = "json"
    /\ out.op = "getAll"
    /\ prevArg = Some([emptyCollections EXCEPT !.posts = <<Rec(Some(1), "First")>>])
    /\ argOrig = Some([emptyCollections EXCEPT !.posts = <<Rec(Some(2), "Second")>>])
    /\ LastResult.posts = <<Rec(Some(2), "Second")>>

\* C5: on the LMDB adapter, after any saveAll calls getAll() holds every id
\* supplied in any call, with the record of the latest call that supplied it.
C5_UpsertById ==
    (kind = "lmdb" /\ out.op = "getAll" /\ saves > 0
        /\ WellFormed(argOrig[1]) /\ (prevArg # Null => WellFormed(prevArg[1]))) =>
        /\ out.status = "resolved"
        /\ \A c \in CollectionNames :
               /\ \A i \in 1..Len(argOrig[1][c]) : HasRecord(LastResult[c], argOrig[1][c][i])
               /\ prevArg # Null =>
                      \A i \in 1..Len(prevArg[1][c]) :
                          prevArg[1][c][i].id \notin SuppliedIds(argOrig[1][c]) =>
                              HasRecord(LastResult[c], prevArg[1][c][i])

Stored == <<file, memData, db, pending>>

\* C6: writing to a value returned by getAll() changes neither what the
\* adapter stores nor any other value returned by getAll().
C6_GetAllDisconnected ==
    [][out'.op = "mutate" =>
          /\ Stored' = Stored
          /\ \A j \in 1..Len(results) :
                 j # out'.idx =>
                     ResultAt(results', memData', j) = ResultAt(results, memData, j)]_vars

C6_Witness ==
    /\ out.op = "mutate"
    /\ kind = "memory"
    /\ Len(results) = 2
    /\ HasRecord(results[1].val.posts, NewRec)
    /\ ~HasRecord(results[2].val.posts, NewRec)
    /\ memData = Some(sampleCollections)

\* C7: saveAll(S) leaves its argument S as it was.
C7_SaveAllKeepsArgument ==
    out.op = "saveAll" => lastArg = argOrig

C7_Witness ==
    /\ out.op = "saveAll"
    /\ kind = "lmdb"
    /\ db.meta.site # Undefined
    /\ argOrig[1].site = Undefined
    /\ lastArg = argOrig

\* C8: health() never rejects; with the backing store failing it resolves to
\* false, and it changes nothing that is stored.
C8_HealthNeverThrows ==
    [][out'.op = "health" =>
          /\ out'.status = "resolved"
          /\ out'.val \in {"true", "false"}
          /\ (storeFault /\ kind # "memory") => out'.val = "false"
          /\ Stored' = Stored]_vars

C8_Witness ==
    /\ out.op = "health"
    /\ kind = "lmdb"
    /\ storeFault
    /\ out.status = "resolved"
    /\ out.val = "false"

(***************************************************************************)
(* Properties of the adapter selector                                      *)
(***************************************************************************)
SameLetter(ch, up) ==
    \/ ch = up
    \/ \E i \in 1..Len(UpperCase) : UpperCase[i] = up /\ LowerCase[i] = ch

IsCaseVariant(chars, known) ==
    /\ Len(chars) = Len(known)
    /\ \A i \in 1..Len(known) : SameLetter(chars[i], known[i])

Canonical(known) ==
    CASE known = <<"L","M","D","B">> -> "LMDB"
      [] known = <<"I","N","D","E","X","E","D","D","B">> -> "IndexedDB"
      [] known = <<"C","O","N","T","E","X","T","D","B">> -> "ContextDB"
      [] known = <<"J","S","O","N","D","B">> -> "JsonDB"
      [] known = <<"F","A","L","S","E">> -> "FALSE"

\* C9: normalizeAdapterName returns one of the five kinds for every input;
\* a case variant of a known name gives that name's kind, anything else
\* (empty, blank, null, undefined, unknown) gives FALSE.
C9_NormalizeTotal ==
    nameOut # "" =>
        /\ nameOut \in AdapterNames
        /\ \A k \in KnownNames :
               (nameIn.t = "string" /\ IsCaseVariant(nameIn.chars, k)) =>
                   nameOut = Canonical(k)
        /\ (\A k \in KnownNames :
               ~(nameIn.t = "string" /\ IsCaseVariant(nameIn.chars, k))) =>
                   nameOut = "FALSE"

C9_Witness ==
    /\ nameIn = Str(<<"L","m","D","b">>)
    /\ nameOut = "LMDB"

(***************************************************************************)
(* Properties of the coordinator                                           *)
(***************************************************************************)
\* C10: in GETMODE a submitWrite returns WriteForbidden, executes nothing on
\* the remote and leaves the Mutation Queue as it was.
C10_GetModeForbidsWrites ==
    [][(mode = "GETMODE" /\ writes' = writes + 1) =>
          /\ outcome'.tag = "WriteForbidden"
          /\ queue' = queue
          /\ applied' = applied]_vars

C10_Witness ==
    /\ mode = "GETMODE"
    /\ online
    /\ outcome.op = "submitWrite"
    /\ outcome.tag = "WriteForbidden"
    /\ writes > 1

\* a submitWrite call settles in this step, the remote having given this answer
SettlesWith(answer) ==
    \/ \E operation \in Operations :
           /\ SubmitWrite(operation)
           /\ canWrite(mode)
           /\ Execute(online, operation) = answer
    \/ \E i \in 1..Len(inflight) :
           /\ SubmitEnd(i)
           /\ inflight[i].answer = answer

Settles == \E answer \in {"success", "unreachable", "semantic-error"} : SettlesWith(answer)

EntryIds(q) == [i \in 1..Len(q) |-> q[i].id]

\* C11 (as stated): in SETMODE a submitWrite with a live remote returns Applied
\* and leaves the queue unchanged; with the remote unreachable it returns
\* Queued and the queue grows by exactly one.
C11_LiveRemoteAlwaysApplied ==
    [][(mode = "SETMODE" /\ Settles) =>
          IF SettlesWith("unreachable")
          THEN outcome'.tag = "Queued" /\ Len(queue') = Len(queue) + 1
          ELSE outcome'.tag = "Applied" /\ queue' = queue]_vars

\* C11: in SETMODE a submitWrite whose operation the live remote executes
\* returns Applied and leaves the queue unchanged; with the remote unreachable
\* it returns Queued with the identifier of the one entry the queue gained.
C11_SetModeAppliedOrQueued ==
    [][mode = "SETMODE" =>
          /\ SettlesWith("success") =>
                 /\ outcome'.tag = "Applied"
                 /\ queue' = queue
                 /\ Len(applied') = Len(applied) + 1
          /\ SettlesWith("unreachable") =>
                 /\ outcome'.tag = "Queued"
                 /\ Len(queue') = Len(queue) + 1
                 /\ SubSeq(queue', 1, Len(queue)) = queue
                 /\ queue'[Len(queue')].id = outcome'.entry
                 /\ applied' = applied]_vars

C11_Witness ==
    /\ mode = "SETMODE"
    /\ outcome.tag = "Applied"
    /\ Len(queue) = 1
    /\ queue[1].status = "pending"
    /\ Len(applied) = 1

\* C12: a write the remote answers with a semantic error returns Rejected
\* with the remote's error detail and is not enqueued; Queued is returned
\* only after a connectivity failure.
C12_SemanticErrorRejected ==
    [][/\ SettlesWith("semantic-error") =>
              /\ outcome'.tag = "Rejected"
              /\ outcome'.detail = "validation"
              /\ queue' = queue
              /\ applied' = applied
       /\ (Settles /\ outcome'.tag = "Queued") => SettlesWith("unreachable")]_vars

C12_Witness ==
    /\ outcome.tag = "Rejected"
    /\ outcome.detail = "validation"
    /\ online
    /\ Len(queue) = 1
    /\ inflight = <<>>

\* C13: list() returns the entries in the order of their enqueue calls, and
\* flush invokes the executor on them in that same order.
C13_QueueFifo ==
    [][/\ \A i, j \in 1..Len(List(queue')) :
              i < j => List(queue')[i].id < List(queue')[j].id
       /\ (FlushQueue /\ online) => attempts' = EntryIds(List(queue))]_vars

C13_Witness ==
    /\ outcome.op = "flushQueue"
    /\ attempts = <<1, 2>>
    /\ enqueued = 2
    /\ queue = <<>>
    /\ Len(applied) = 2

Succeeds(e) == e.payload.valid

Fails(e) == ~e.payload.valid

MarkFailed(q) == [i \in 1..Len(q) |-> [q[i] EXCEPT !.status = "failed"]]

\* C14: a flush attempts every entry whatever happened to the earlier ones,
\* removes exactly the entries that succeeded and reports how many were
\* flushed, how many failed and how many remain.
C14_FlushContinuesAfterFailure ==
    [][(FlushQueue /\ online) =>
          /\ Len(attempts') = Len(queue)
          /\ queue' = MarkFailed(SelectSeq(queue, Fails))
          /\ outcome'.flushed = Len(SelectSeq(queue, Succeeds))
          /\ outcome'.failed = Len(SelectSeq(queue, Fails))
          /\ outcome'.remaining = Len(queue')
          /\ Len(applied') = Len(applied) + outcome'.flushed]_vars

C14_Witness ==
    /\ outcome.op = "flushQueue"
    /\ attempts = <<1, 2>>
    /\ Len(queue) = 1
    /\ queue[1].id = 1
    /\ queue[1].status = "failed"
    /\ outcome.flushed = 1
    /\ outcome.failed = 1
    /\ outcome.remaining = 1

Payloads(q) == [i \in 1..Len(q) |-> q[i].payload]

RemoteOffline == net # "ok" \/ ~online

\* C15: flushQueue while the remote is offline attempts no entry, leaves the
\* queue as it was and reports 0 flushed, 0 failed and N remaining, N being
\* the length of the queue before the call.
C15_OfflineFlushNoOp ==
    [][(FlushMutationQueue /\ RemoteOffline) =>
          /\ queue' = queue
          /\ applied' = applied
          /\ attempts' \in {<<>>, attempts}
          /\ cout'.status = "resolved"
          /\ cout'.val.flushed = Some(0)
          /\ cout'.val.failed = Some(0)
          /\ cout'.val.remaining = Some(Len(queue))]_vars

\* C17: fetchApiHealth never rejects; on a network error, a non-OK response
\* or an unreadable body it resolves to the offline status, otherwise to the
\* status the API server reports.
C17_ProbeNeverThrows ==
    [][PollHealth =>
          /\ cout'.status = "resolved"
          /\ net # "ok" => cout'.val = OfflineStatus
          /\ net = "ok" => cout'.val = HealthBody(mode, online, queue)]_vars

C17_Witness ==
    /\ cout.fn = "fetchApiHealth"
    /\ net = "garbled"
    /\ cout.status = "resolved"
    /\ cout.val.status = "offline"
    /\ apiStatus = Some(OfflineStatus)
    /\ fetches > 1

\* the status the admin UI last stored says the remote is not online
ProbedOffline == apiStatus # Null /\ ~isOnline(apiStatus)

\* C18: pullSnapshot while the last probe says offline makes no network call,
\* fails with RemoteUnavailable and leaves the stored snapshot as it was; a
\* pull that fails never reports success.
C18_OfflinePullShortCircuits ==
    [][SyncLocalDatabase =>
          /\ ProbedOffline =>
                 /\ fetches' = fetches
                 /\ cout'.status = "resolved"
                 /\ cout'.val.success = FALSE
                 /\ memData' = memData
          /\ (cout'.status = "resolved" /\ cout'.val.success) => memData' # Null]_vars

\* C19: every call over the coordinator's boundary (probe, pullSnapshot,
\* submitWrite with its remote-execution call, flushQueue) resolves to an
\* outcome; none rejects, whatever the state of the connection.
C19_BoundaryNeverThrows ==
    cout.fn # "none" => cout.status = "resolved"

\* C20: canWrite is false for GETMODE only, a write has the same outcome in
\* CRUDMODE as in SETMODE, and the flush control offered in SETMODE is offered
\* in CRUDMODE too.
C20_CrudModeSupersetOfSetMode ==
    /\ \A m \in Modes : canWrite(m) <=> m # "GETMODE"
    /\ \A operation \in Operations :
           SubmitWriteResult("CRUDMODE", online, queue, applied, enqueued + 1, operation)
               = SubmitWriteResult("SETMODE", online, queue, applied, enqueued + 1, operation)
    /\ (apiStatus # Null /\ apiStatus[1].mode = Some("CRUDMODE")) =>
           FlushButtonShown(apiStatus)
               = FlushButtonShown(Some([apiStatus[1] EXCEPT !.mode = Some("SETMODE")]))

(***************************************************************************)
(* Properties of interleaved reads and writes                              *)
(***************************************************************************)
\* the first and the second snapshot handed to saveAll
FirstSaved == IF prevArg # Null THEN prevArg ELSE argOrig

\* what the store of the adapter holds after no, one or two whole saveAll
\* calls, as getAll would return it
WholeSnapshots ==
    CASE kind = "json" ->
            {JSONparse(JSONstringify(a[1])) : a \in {FirstSaved, argOrig} \ {Null}}
      [] kind = "memory" ->
            {structuredClone(a[1]) : a \in {FirstSaved, argOrig} \ {Null}}
      [] kind = "lmdb" ->
            LET D1 == IF FirstSaved = Null THEN EmptyDb
                      ELSE ApplyBatch(EmptyDb, LmdbBatch(FirstSaved[1], EmptyDb))
                D2 == IF prevArg = Null THEN {}
                      ELSE {ApplyBatch(D1, LmdbBatch(argOrig[1], c)) : c \in {EmptyDb, D1}}
            IN  {LmdbRead(d) : d \in {EmptyDb, D1} \cup D2}

\* C21: however saveAll, getAll and the commits of the store interleave, a
\* getAll that resolves returns the whole store as it was before or after a
\* saveAll, never part of one (stated for the first two saveAll calls).
C21_NoTornSnapshot ==
    (out.op = "getAll" /\ out.status = "resolved" /\ saves <= 2) =>
        LastResult \in WholeSnapshots

C21_Witness ==
    /\ kind = "lmdb"
    /\ out.op = "getAll"
    /\ saves = 2
    /\ Len(pending) = 1
    /\ Len(LastResult.posts) = 2
    /\ Len(argOrig[1].posts) = 2

(***************************************************************************)
(* Properties of the calls of the admin UI                                 *)
(***************************************************************************)
\* C22: every remote call eventually returns; when no answer ever arrives
\* the call ends by timeout, so that no caller waits for ever.
C22_RemoteCallsReturn ==
    (cout.status = "pending") ~> (cout.status # "pending")

\* C23: reading degrades instead of failing: with the endpoint unreachable,
\* answering non-OK or answering no JSON, getLocalData resolves to the offline
\* marker with null data and getQueuedMutations to an empty queue with the
\* offline marker; neither call ever rejects.
C23_ReadsDegrade ==
    [][/\ GetLocalData =>
              /\ cout'.status = "resolved"
              /\ net # "ok" => (cout'.val.data = Null /\ cout'.val.offline)
       /\ GetQueuedMutations =>
              /\ cout'.status = "resolved"
              /\ net # "ok" => (cout'.val.queue = <<>> /\ cout'.val.offline)]_vars

C23_Witness ==
    /\ cout.fn = "getLocalData"
    /\ net = "notok"
    /\ memData # Null
    /\ cout.status = "resolved"
    /\ cout.val = LocalDataUnavailable

\* what each outcome tag is to look like in the two views
PostEditorFor(tag) ==
    CASE tag = "Applied" -> "success"
      [] tag = "Queued" -> "warning"
      [] tag \in {"Rejected", "WriteForbidden"} -> "error"

CategoriesFor(tag) ==
    CASE tag = "Applied" -> "list reloaded, form closed"
      [] tag = "Queued" -> "queued"
      [] tag \in {"Rejected", "WriteForbidden"} -> "alert"

\* C24: a write submitted from a view is shown as applied, queued or
\* rejected according to its outcome tag alone: a queued write is not shown
\* as applied or rejected, and a write that did not get through to the
\* coordinator is shown as neither applied nor rejected.
C24_ShownByOutcomeTag ==
    [][\A operation \in Operations :
          FetchGraphQL(operation) =>
              IF net = "ok"
              THEN /\ PostEditorMessage(cout').type = PostEditorFor(outcome'.tag)
                   /\ CategoriesShown(cout') = CategoriesFor(outcome'.tag)
              ELSE /\ PostEditorMessage(cout').type # "success"
                   /\ PostEditorMessage(cout').text \notin {ErrorDetail(o) : o \in Operations}
                   /\ CategoriesShown(cout') \notin {"list reloaded, form closed", "alert"}]_vars

C26_OfflineFlag ==
    /\ ctx.last # "none" =>
           (ctx.offline <=> ctx.last \in {"goOffline", "mockNetworkError"})
    /\ ctx.offline =>
           \A n \in NetConditions :
               LET res == globalFetch(ctx, n, HealthBody(mode, online, queue))
               IN  /\ res = Failed("TypeError: Failed to fetch")
                   /\ fetchApiHealth(res).status = "resolved"
                   /\ fetchApiHealth(res).val.status = "offline"

C26_Witness ==
    /\ ctx.last = "mockNetworkError"
    /\ ctx.offline
    /\ net = "ok"
    /\ online
    /\ cout.fn = "fetchApiHealth"
    /\ cout.val.status = "offline"
    /\ fetches = 2

(***************************************************************************)
(* Properties of health()                                                  *)
(***************************************************************************)
HealthNow ==
    CASE kind = "json" -> JsonHealth(file, storeFault)
      [] kind = "memory" -> MemoryHealth(memData)
      [] kind = "lmdb" -> LmdbHealth(storeFault)

GetAllNow ==
    CASE kind = "json" -> JsonGetAll(file, storeFault)
      [] kind = "memory" -> MemoryGetAll(memData)
      [] kind = "lmdb" -> LmdbGetAll(db, storeFault)

\* C27: in every state reached through saveAll, getAll, health and dispose,
\* health() resolves to true exactly when getAll() called in that state
\* resolves, on each adapter.
C27_HealthIffGetAllResolves ==
    /\ HealthNow.status = "resolved"
    /\ HealthNow.val <=> (GetAllNow.status = "resolved")

C27_Witness ==
    /\ kind = "json"
    /\ saves > 0
    /\ file = Null
    /\ out.op = "health"
    /\ out.val = "false"

(***************************************************************************)
(* Properties of the LMDB adapter                                          *)
(***************************************************************************)
\* C28: LmdbAdapter.saveAll(S) has no uncommitted write left when it
\* resolves, and a getAll() started after it has resolved returns every
\* record of S.
C28_ReadYourWrites ==
    kind = "lmdb" =>
        /\ (out.op = "saveAll" /\ out.status = "resolved") => pending = <<>>
        /\ (out.op = "getAll" /\ saves > 0) =>
               \A c \in CollectionNames :
                   \A i \in 1..Len(argOrig[1][c]) :
                       asId(argOrig[1][c][i].id) \notin
                           {asId(argOrig[1][c][j].id) : j \in (i + 1)..Len(argOrig[1][c])}
                       => HasRecord(LastResult[c], argOrig[1][c][i])

\* the singleton the latest saveAll supplied or, if it supplied none, the
\* one the call before it supplied
LatestSupplied(field) ==
    IF argOrig[1][field] # Undefined THEN argOrig[1][field]
    ELSE IF prevArg # Null THEN prevArg[1][field]
    ELSE Undefined

\* C29: after saveAll calls on LmdbAdapter, getAll() returns the site and
\* the menu of the latest call that supplied one (a call without them leaves
\* the stored ones); the file-backed adapter returns those of the last call
\* only, so none after a call without them.  Stated for two saveAll calls.
C29_SingletonsRetained ==
    (out.op = "getAll" /\ out.status = "resolved" /\ saves > 0 /\ saves <= 2) =>
        /\ kind = "lmdb" =>
               /\ LastResult.site = LatestSupplied("site")
               /\ LastResult.menu = LatestSupplied("menu")
        /\ kind = "json" =>
               /\ LastResult.site = argOrig[1].site
               /\ LastResult.menu = argOrig[1].menu

\* the records written to a collection by the (at most two) saveAll calls,
\* in the order of writing
Written(c) == (IF prevArg = Null THEN <<>> ELSE prevArg[1][c]) \o argOrig[1][c]

AscendingKeys(rs) ==
    \A i, j \in 1..Len(rs) : i < j => asId(rs[i].id) < asId(rs[j].id)

\* C30: after saveAll calls on LmdbAdapter, getAll() returns in each
\* collection at most one record per numeric key, in ascending key order;
\* records without an id share key 0 with each other and with a record of
\* id 0, and of the records written under one key the last written is the
\* one returned.  The last part is stated for two saveAll calls.
C30_OneRecordPerKey ==
    (kind = "lmdb" /\ out.op = "getAll" /\ out.status = "resolved") =>
        \A c \in CollectionNames :
            /\ AscendingKeys(LastResult[c])
            /\ (saves > 0 /\ saves <= 2) =>
                   \A i \in 1..Len(Written(c)) :
                       (\A j \in (i + 1)..Len(Written(c)) :
                            asId(Written(c)[j].id) # asId(Written(c)[i].id))
                       => HasRecord(LastResult[c], Written(c)[i])

====
